---- MODULE Spec2Model ----
(***************************************************************************)
(* Sypher STT: the push-to-talk pipeline of src/sypher_stt as a state      *)
(* machine.  Threads: the pynput listener thread (HotkeyManager._on_press  *)
(* and _on_release, which call SypherSTT._on_hotkey_press / _release), the *)
(* transcription workers (_transcribe), the start-up preload thread, the   *)
(* Tk main thread (SypherSTT._apply_settings) and the PortAudio callback   *)
(* (AudioRecorder._audio_callback).  Every step is one access, or one      *)
(* lock-protected section, of the shared state.                            *)
(***************************************************************************)
EXTENDS Integers, Sequences, FiniteSets, TLC

(* ------------------------------ constants ------------------------------ *)

SAMPLE_RATE == 16000
BLOCK_SIZE == 1024
MAX_RECORDING_SECONDS == 120
\* transcriber.py: "if audio.size < 1600"
MIN_SAMPLES == 1600

AVAILABLE_MODELS ==
    {"tiny.en", "tiny", "base.en", "base", "small.en", "small",
     "medium.en", "medium", "large-v2", "large-v3", "large-v3-turbo"}
DEFAULT_MODEL == "base.en"

KEY_MAP ==
    {"f1", "f2", "f3", "f4", "f5", "f6", "f7", "f8", "f9", "f10", "f11",
     "f12", "scroll_lock", "pause", "insert"}
DEFAULT_HOTKEY == "f9"

\* SAMPLE_RATE * MAX_RECORDING_SECONDS, the bound of _audio_callback
CapSamples == SAMPLE_RATE * MAX_RECORDING_SECONDS

(* ------------------------------- bounds -------------------------------- *)

\* on_start calls forwarded by the HotkeyManager in one run
MaxStarts == 2
\* settings saved in one run
MaxApply == 1
\* blocks a recorder accumulates in one run of the application
MaxChunks == 2
\* threads of the engine harness (SpecEngine)
NCallers == 2
\* blocks still missing to the cap in the long session of SpecAudio
NearCap == 4
\* calls of the model_size setter in SpecEngine
MaxSets == 2
\* calls of paste_text in SpecPaste
MaxPastes == 2

\* the inputs drawn
KeyChoices == {"f9", "f10"}
ModelChoices == {"base.en", "tiny.en"}
\* the configurations the settings window saves: the one in use, saved
\* again, and one with another hotkey and another model
ConfigChoices == {[hotkey |-> "f9", model |-> "base.en"],
                  [hotkey |-> "f10", model |-> "tiny.en"]}
SetterInputs == ModelChoices \cup {"huge"}
\* what the inference of a loaded model returns (after strip and join)
Texts == {"", "hello world"}
\* frames per delivered block: the configured block, and the 0.05 s block
FrameSizes == {BLOCK_SIZE}
\* how the device answers the stop and close of a stream in a run of the
\* application; the recorder alone (SpecAudio) is driven with StopOutcomes
AppStopOutcomes == {"ok"}
AnyFrameSizes == {BLOCK_SIZE, 800}

(* ------------------------------ the state ------------------------------ *)

VARIABLES
    \* HotkeyManager
    active, is_held, hotkey, down, n_start, stray_up, unmatched,
    \* the listener thread: where it is in a handler
    hk,
    \* SypherSTT
    processing, cur, n_tasks,
    \* TrayApp._state, the notifications, the texts given to paste_text
    tray_state, notes, sink,
    \* threads that use the Transcriber: 0 preload, 1..MaxStarts workers,
    \* above that the harness callers
    thr,
    \* Transcriber
    model_size, model, load_lock, n_loads, disk,
    \* AudioRecorder objects and the device streams opened so far
    recs, streams, n_streams,
    \* the Tk thread in _apply_settings (or a lone model_size setter call)
    st, n_apply,
    \* the config file and what load_config made of it
    config_file, config,
    \* the system clipboard, the texts the active window received on Ctrl+V,
    \* the thread inside paste_text and the _restore threads
    clipboard, window, pst, rst

vars == <<active, is_held, hotkey, down, n_start, stray_up, unmatched, hk, processing, cur,
          n_tasks, tray_state, notes, sink, thr, model_size, model, load_lock,
          n_loads, disk, recs, streams, n_streams, st, n_apply, config_file,
          config, clipboard, window, pst, rst>>

hotkeyVars == <<active, is_held, hotkey, down, n_start, stray_up, unmatched, hk>>
appVars == <<processing, cur, n_tasks, tray_state, notes, sink>>
engineVars == <<model_size, model, load_lock, n_loads, disk>>
audioVars == <<recs, streams, n_streams>>
ioVars == <<config_file, config, clipboard, window, pst, rst>>

Preload == 0
Workers == 1..MaxStarts
Callers == (MaxStarts + 1)..(MaxStarts + NCallers)
Threads == {Preload} \cup Workers \cup Callers
Recorders == 1..(MaxApply + 1)
StreamIds == 1..MaxStarts

\* self._model is None
NoModel == [name |-> "", id |-> 0]
\* a WhisperModel instance: the model it was loaded from, and its identity
Instance(name, id) == [name |-> name, id |-> id]

\* a thread: where it is, what it called, its audio, the model name it read
\* under the load lock, the instance its ensure_model found or made, the
\* instance its inference ran on, and what the call returned
NoThread == [pc |-> "none", call |-> "", audio |-> <<>>, name |-> "",
             ens |-> NoModel, inst |-> NoModel, out |-> ""]

\* AudioRecorder.__init__
NewRecorder == [chunks |-> <<>>, samples_recorded |-> 0, stream |-> 0,
                recording |-> FALSE]
NoStream == [rec |-> 0, st |-> "none"]

\* the titles given to TrayApp.notify
Titles == {"Recording Error", "Transcription Error", "Model Error", "Sypher STT"}
Notify(title) == [notes EXCEPT ![title] = @ + 1]

HkIdle == "idle"
StIdle == [pc |-> "idle", hotkey |-> "", model |-> "", tmp |-> "", then |-> ""]

(* -------------------------- audio (audio.py) --------------------------- *)

RECURSIVE SumFrames(_)
SumFrames(chunks) ==
    IF chunks = <<>> THEN 0
    ELSE Head(chunks).frames + SumFrames(Tail(chunks))

\* np.concatenate(self._chunks): the blocks in delivery order; audio.size
Concatenate(chunks) == chunks
Size(audio) == SumFrames(audio)

\* (variant) the bound tested with > in place of >=
CapPassed(samples) == samples > CapSamples

\* the body of "if self._recording.is_set()" in _audio_callback
CapReached(samples) == samples >= CapSamples

CallbackBody(r, blk) ==
    LET n == r.samples_recorded + blk.frames IN
    [r EXCEPT !.chunks = Append(@, blk),
              !.samples_recorded = n,
              !.recording = IF CapReached(n) THEN FALSE ELSE @]

\* (variant) the callback without the test of _recording
AudioCallbackAlways(r, blk) == CallbackBody(r, blk)

AudioCallbackOn(r, blk) ==
    IF r.recording THEN CallbackBody(r, blk) ELSE r

\* the blocks of a session are followed up to MaxChunks, and again over
\* its last NearCap blocks before the cap
Followed(r) ==
    \/ Len(r.chunks) < MaxChunks
    \/ r.samples_recorded + NearCap * BLOCK_SIZE >= CapSamples

\* the stream s delivers one block of f frames to its recorder's callback
AudioCallback(s, f) ==
    /\ streams[s].st = "active"
    /\ LET r == streams[s].rec IN
         /\ Followed(recs[r])
         /\ recs' = [recs EXCEPT ![r] = AudioCallbackOn(@, [frames |-> f, stream |-> s])]
    /\ UNCHANGED <<streams, n_streams>>

\* start_recording, under self._lock.  how: "ok", "ctor" (sd.InputStream
\* raises PortAudioError), "start" (stream.start() raises PortAudioError),
\* "other" (sd.InputStream raises another exception)
StartOutcomes == {"ok", "ctor", "start", "other"}

\* (variant) start_recording that keeps the buffer and the count
StartKeeps(r) == [r EXCEPT !.recording = TRUE]

StartReset(r) ==
    [r EXCEPT !.chunks = <<>>, !.samples_recorded = 0, !.recording = TRUE]

StartRecording(i, how) ==
    /\ n_streams < MaxStarts
    /\ LET r == StartReset(recs[i])
           s == n_streams + 1 IN
         CASE how = "ok" ->
                /\ recs' = [recs EXCEPT ![i] = [r EXCEPT !.stream = s]]
                /\ streams' = [streams EXCEPT ![s] = [rec |-> i, st |-> "active"]]
                /\ n_streams' = s
           [] how = "start" ->
                /\ recs' = [recs EXCEPT ![i] = [r EXCEPT !.stream = s, !.recording = FALSE]]
                /\ streams' = [streams EXCEPT ![s] = [rec |-> i, st |-> "unstarted"]]
                /\ n_streams' = s
           [] how = "ctor" ->
                /\ recs' = [recs EXCEPT ![i] = [r EXCEPT !.recording = FALSE]]
                /\ UNCHANGED <<streams, n_streams>>
           [] how = "other" ->
                /\ recs' = [recs EXCEPT ![i] = r]
                /\ UNCHANGED <<streams, n_streams>>

\* stop_recording, under self._lock: what it leaves, and what it returns
StopRecorder(r) ==
    [r EXCEPT !.recording = FALSE, !.stream = 0, !.chunks = <<>>]
\* (variant) stop_recording that returns the empty array always
StopReturnsNothing(r) == <<>>

StopResult(r) == Concatenate(r.chunks)

\* "try: self._stream.stop(); self._stream.close()  except Exception": how
\* is "ok", "stop" (stop() raises: close() is skipped, the stream is as it
\* was) or "close" (close() raises: the stream is stopped, not closed)
StopOutcomes == {"ok", "stop", "close"}

StreamAfterStop(was, how) ==
    IF how = "ok" THEN "closed"
    ELSE IF how = "close" THEN "stopped"
    ELSE was

StopRecording(i, how) ==
    /\ recs' = [recs EXCEPT ![i] = StopRecorder(@)]
    /\ streams' = IF recs[i].stream # 0
                  THEN [streams EXCEPT ![recs[i].stream].st = StreamAfterStop(@, how)]
                  ELSE streams
    /\ UNCHANGED n_streams

\* is_recording
IsRecording(r) == r.recording

(* ---------------------- engine (transcriber.py) ------------------------ *)

\* what a thread does when its call into the Transcriber is over.
\* _preload (app.py): notify "Sypher STT" or "Model Error"; the thread ends.
\* _transcribe (app.py): "if text: paste_text(text)", which may raise in
\* pyperclip.copy, and the except branch: notify "Transcription Error"; then
\* the worker is at its finally block.  A harness caller keeps what it got.
PasteOutcomes == {"ok", "raise"}
\* (variant) "if text:" taken for the empty text too
HasTextOrEmpty(out) == out # "raise"
HasText(out) == out \notin {"", "raise"}
\* (variant) the text given to paste_text twice
PastedTwice(out) == IF HasText(out) THEN Append(Append(sink, out), out) ELSE sink
Pasted(out) == IF HasText(out) THEN Append(sink, out) ELSE sink
Failed(out, paste) == out = "raise" \/ (HasText(out) /\ paste = "raise")

\* (variant) _transcribe with no finally block: a worker whose call raised
\* reports the error and ends
ReturnNoFinally(t, rec) ==
    IF t = Preload
    THEN /\ thr' = [thr EXCEPT ![t] = NoThread]
         /\ notes' = Notify(IF rec.out = "raise" THEN "Model Error" ELSE "Sypher STT")
         /\ UNCHANGED sink
    ELSE IF t \in Workers
    THEN /\ thr' = [thr EXCEPT ![t] = IF rec.out = "raise" THEN NoThread
                                      ELSE [NoThread EXCEPT !.pc = "clear", !.out = rec.out]]
         /\ sink' = Pasted(rec.out)
         /\ \E paste \in PasteOutcomes :
              notes' = IF Failed(rec.out, paste) THEN Notify("Transcription Error") ELSE notes
    ELSE /\ thr' = [thr EXCEPT ![t] = [rec EXCEPT !.pc = "ret"]]
         /\ UNCHANGED <<sink, notes>>

Return(t, rec) ==
    IF t = Preload
    THEN /\ thr' = [thr EXCEPT ![t] = NoThread]
         /\ notes' = Notify(IF rec.out = "raise" THEN "Model Error" ELSE "Sypher STT")
         /\ UNCHANGED sink
    ELSE IF t \in Workers
    THEN /\ thr' = [thr EXCEPT ![t] = [NoThread EXCEPT !.pc = "clear", !.out = rec.out]]
         /\ sink' = Pasted(rec.out)
         /\ \E paste \in PasteOutcomes :
              notes' = IF Failed(rec.out, paste) THEN Notify("Transcription Error") ELSE notes
    ELSE /\ thr' = [thr EXCEPT ![t] = [rec EXCEPT !.pc = "ret"]]
         /\ UNCHANGED <<sink, notes>>

\* a step that leaves the thread inside the Transcriber
Goto(t, rec) ==
    /\ thr' = [thr EXCEPT ![t] = rec]
    /\ UNCHANGED <<sink, notes>>

\* (variant) ensure_model without its tests of _model
ModelNeverSeen == FALSE

\* "if self._model is not None: return", before and after taking the lock
ModelLoaded == model # NoModel

\* ensure_model returns, having found or made the instance m: transcribe
\* goes on to the inference, a lone ensure_model is over
AfterEnsure(t, m) ==
    IF thr[t].call = "transcribe"
    THEN Goto(t, [thr[t] EXCEPT !.pc = "infer", !.name = "", !.ens = m])
    ELSE Return(t, [thr[t] EXCEPT !.out = "ok", !.name = "", !.ens = m])

\* the engine raises
Raised(t) == Return(t, [thr[t] EXCEPT !.out = "raise", !.name = ""])

\* ensure_model, the unlocked test
EnsureCheck(t) ==
    /\ thr[t].pc = "ens_check"
    /\ IF ModelLoaded THEN AfterEnsure(t, model)
       ELSE Goto(t, [thr[t] EXCEPT !.pc = "ens_lock"])
    /\ UNCHANGED engineVars

\* _get_model_path(): the name read under the lock
ModelPathName == model_size
\* "not model_path.exists() or not (model_path / 'model.bin').exists()"
ModelMissing(name) == name \notin disk

\* ensure_model: "with self._load_lock", the second test, the path test
EnsureLock(t) ==
    /\ thr[t].pc = "ens_lock"
    /\ load_lock = -1
    /\ IF ModelLoaded THEN AfterEnsure(t, model) /\ UNCHANGED load_lock
       ELSE IF ModelMissing(ModelPathName) THEN Raised(t) /\ UNCHANGED load_lock
       ELSE /\ Goto(t, [thr[t] EXCEPT !.pc = "ens_load", !.name = ModelPathName])
            /\ load_lock' = t
    /\ UNCHANGED <<model_size, model, n_loads, disk>>

\* WhisperModel(str(model_path), ...) returns or raises; self._model = ...
LoadOutcomes == {"ok", "raise"}
Loaded(t) == Instance(thr[t].name, n_loads + 1)

EnsureLoad(t, how) ==
    /\ thr[t].pc = "ens_load"
    /\ load_lock = t
    /\ n_loads' = n_loads + 1
    /\ load_lock' = -1
    /\ IF how = "ok"
       THEN model' = Loaded(t) /\ AfterEnsure(t, Loaded(t))
       ELSE model' = model /\ Raised(t)
    /\ UNCHANGED <<model_size, disk>>

\* (variant) transcribe without the test of the size
NeverTooShort(audio) == FALSE

\* (variant) the threshold compared with <= in place of <
TooShortOrEqual(audio) == Size(audio) <= MIN_SAMPLES

\* transcribe: "if audio.size < 1600: return ''", else ensure_model()
TooShort(audio) == Size(audio) < MIN_SAMPLES

TranscribeEnter(t) ==
    /\ thr[t].pc = "transcribe"
    /\ IF TooShort(thr[t].audio)
       THEN Return(t, [thr[t] EXCEPT !.out = ""])
       ELSE Goto(t, [thr[t] EXCEPT !.pc = "ens_check"])
    /\ UNCHANGED engineVars

\* self._model.transcribe(audio, ...): self._model is read again here; on
\* None the attribute access raises.  The instance read does the inference.
InferResults == Texts \cup {"raise"}
InferInstance == model

Infer(t, res) ==
    /\ thr[t].pc = "infer"
    /\ IF InferInstance = NoModel
       THEN Raised(t)
       ELSE Return(t, [thr[t] EXCEPT !.out = res, !.inst = InferInstance])
    /\ UNCHANGED engineVars

\* (variant) the setter without the test of the name
SetterAcceptsAll(value) == FALSE

\* model_size setter: the test of the name, then the two assignments
SetterRejects(value) == value \notin AVAILABLE_MODELS
SetterChanges(value) == value # model_size

SetterAfter == IF st.then = "apply" THEN [st EXCEPT !.pc = "is_recording"] ELSE StIdle

\* "raise ValueError(...)": the call is over, and what it raised is kept
SetterRaised == [StIdle EXCEPT !.tmp = "ValueError"]

SetModelSize ==
    /\ st.pc = "model_size"
    /\ IF SetterRejects(st.model)
       THEN st' = SetterRaised /\ UNCHANGED model_size
       ELSE IF SetterChanges(st.model)
       THEN st' = [st EXCEPT !.pc = "model_none"] /\ model_size' = st.model
       ELSE st' = SetterAfter /\ UNCHANGED model_size
    /\ UNCHANGED <<model, load_lock, n_loads, disk>>

SetModelNone ==
    /\ st.pc = "model_none"
    /\ model' = NoModel
    /\ st' = SetterAfter
    /\ UNCHANGED <<model_size, load_lock, n_loads, disk>>

(* --------------------- hotkey manager (hotkeys.py) --------------------- *)

\* _on_press, under _held_lock: "key == self._hotkey and not self._is_held"
PressForwarded(k) == active /\ k = hotkey /\ ~is_held
\* (variant) _on_release without the test of _is_held
ReleaseOfHotkey(k) == active /\ k = hotkey
\* _on_release, under _held_lock: "key == self._hotkey and self._is_held"
ReleaseForwarded(k) == active /\ k = hotkey /\ is_held

(* --------------------------- the app (app.py) -------------------------- *)

\* _on_hotkey_press: "with self._state_lock: if self._processing: return"
PressRejected == processing
\* (variant) _on_hotkey_release without the test of _processing
ReleaseNeverRejected == FALSE
\* _on_hotkey_release: "with self._state_lock: if self._processing: return"
ReleaseRejected == processing

\* a key goes down, or repeats while it is down.  The listener thread runs
\* _on_press; a forwarded press runs on_start = _on_hotkey_press up to
\* self._tray.set_state(AppState.RECORDING)
KeyDownEvt(k) ==
    /\ hk = "idle"
    /\ down' = down \cup {k}
    /\ IF PressForwarded(k)
       THEN /\ n_start < MaxStarts
            /\ is_held' = TRUE
            /\ n_start' = n_start + 1
            /\ IF PressRejected
               THEN UNCHANGED <<hk, tray_state>>
               ELSE hk' = "press_start" /\ tray_state' = "recording"
       ELSE UNCHANGED <<is_held, n_start, hk, tray_state>>
    /\ stray_up' = FALSE
    /\ unmatched' = (PressForwarded(k) \/ unmatched)
    /\ UNCHANGED <<active, hotkey, processing, cur, n_tasks, notes, sink, thr,
                   engineVars, audioVars, st, n_apply, ioVars>>

\* self._recorder.start_recording(), and whether it raised
PressStart(how) ==
    /\ hk = "press_start"
    /\ StartRecording(cur, how)
    /\ hk' = IF how = "ok" THEN "idle" ELSE "press_fail"
    /\ UNCHANGED <<active, is_held, hotkey, down, n_start, stray_up, unmatched,
                   appVars, thr,
                   engineVars, st, n_apply, ioVars>>

\* "except Exception": set_state(IDLE), notify("Recording Error", ...)
PressFail ==
    /\ hk = "press_fail"
    /\ tray_state' = "idle"
    /\ notes' = Notify("Recording Error")
    /\ hk' = "idle"
    /\ UNCHANGED <<active, is_held, hotkey, down, n_start, stray_up, unmatched,
                   processing, cur,
                   n_tasks, sink, thr, engineVars, audioVars, st, n_apply, ioVars>>

\* the release of the hotkey reaches the listener while no forwarded press
\* awaits its release; stray_up records that the last key event was one
\* (history, read by no action), and unmatched that an on_start was called
\* and no on_stop since (history, read by no action)
StrayRelease(k) == active /\ k = hotkey /\ ~is_held

\* a key that is down goes up.  The listener thread runs _on_release; a
\* forwarded release runs on_stop = _on_hotkey_release up to
\* self._tray.set_state(AppState.TRANSCRIBING)
KeyUpEvt(k) ==
    /\ hk = "idle"
    /\ k \in down
    /\ down' = down \ {k}
    /\ stray_up' = StrayRelease(k)
    /\ unmatched' = (~ReleaseForwarded(k) /\ unmatched)
    /\ IF ReleaseForwarded(k)
       THEN /\ is_held' = FALSE
            /\ IF ReleaseRejected
               THEN UNCHANGED <<hk, processing, tray_state>>
               ELSE /\ hk' = "release_stop"
                    /\ processing' = TRUE
                    /\ tray_state' = "transcribing"
       ELSE UNCHANGED <<is_held, hk, processing, tray_state>>
    /\ UNCHANGED <<active, hotkey, n_start, cur, n_tasks, notes, sink, thr,
                   engineVars, audioVars, st, n_apply, ioVars>>

\* audio = self._recorder.stop_recording();
\* threading.Thread(target=_transcribe, daemon=True).start()
\* (variant) _transcribe called by the handler itself: when the handler
\* goes on, the transcription has run up to its finally block
RanInline(audio) ==
    [NoThread EXCEPT !.pc = "clear", !.call = "transcribe", !.audio = audio]

Launched(audio) ==
    [NoThread EXCEPT !.pc = "transcribe", !.call = "transcribe", !.audio = audio]

ReleaseStop(how) ==
    /\ hk = "release_stop"
    /\ StopRecording(cur, how)
    /\ n_tasks' = n_tasks + 1
    /\ thr' = [thr EXCEPT ![n_tasks + 1] = Launched(StopResult(recs[cur]))]
    /\ hk' = "idle"
    /\ UNCHANGED <<active, is_held, hotkey, down, n_start, stray_up, unmatched,
                   processing, cur,
                   tray_state, notes, sink, engineVars, st, n_apply, ioVars>>

\* _transcribe, finally: "with self._state_lock: self._processing = False"
\* (variant) a finally block that sends a notification inside its with block
ClearNotifying(w) ==
    /\ thr[w].pc = "clear"
    /\ processing' = FALSE
    /\ notes' = Notify("Sypher STT")
    /\ thr' = [thr EXCEPT ![w] = [NoThread EXCEPT !.pc = "show_idle"]]
    /\ UNCHANGED <<hotkeyVars, cur, n_tasks, tray_state, sink, engineVars,
                   audioVars, st, n_apply, ioVars>>

Clear(w) ==
    /\ thr[w].pc = "clear"
    /\ processing' = FALSE
    /\ thr' = [thr EXCEPT ![w] = [NoThread EXCEPT !.pc = "show_idle"]]
    /\ UNCHANGED <<hotkeyVars, cur, n_tasks, tray_state, notes, sink, engineVars,
                   audioVars, st, n_apply, ioVars>>

\* finally: self._tray.set_state(AppState.IDLE); the thread ends
ShowIdle(w) ==
    /\ thr[w].pc = "show_idle"
    /\ tray_state' = "idle"
    /\ thr' = [thr EXCEPT ![w] = NoThread]
    /\ UNCHANGED <<hotkeyVars, processing, cur, n_tasks, notes, sink, engineVars,
                   audioVars, st, n_apply, ioVars>>

\* run(): the preload thread is started, then the hotkey listener
Run ==
    /\ ~active
    /\ active' = TRUE
    /\ thr' = [thr EXCEPT ![Preload] = [NoThread EXCEPT !.pc = "ens_check", !.call = "ensure"]]
    /\ UNCHANGED <<is_held, hotkey, down, n_start, stray_up, unmatched, hk,
                   appVars, engineVars,
                   audioVars, st, n_apply, ioVars>>

(* ----------------------- _apply_settings (app.py) ---------------------- *)

\* _apply_settings(config): self._config = config; the hotkey_name setter
\* assigns _hotkey_name and _hotkey
ApplySettings(c) ==
    /\ active
    /\ st.pc = "idle"
    /\ n_apply < MaxApply
    /\ n_apply' = n_apply + 1
    /\ hotkey' = c.hotkey
    /\ st' = [pc |-> "reset_held", hotkey |-> c.hotkey, model |-> c.model,
              tmp |-> "", then |-> "apply"]
    /\ UNCHANGED <<active, is_held, down, n_start, stray_up, unmatched, hk,
                   appVars, thr, engineVars, audioVars, ioVars>>

\* the hotkey_name setter: "with self._held_lock: self._is_held = False"
ApplyResetHeld ==
    /\ st.pc = "reset_held"
    /\ is_held' = FALSE
    /\ st' = [st EXCEPT !.pc = "tray_read"]
    /\ UNCHANGED <<active, hotkey, down, n_start, stray_up, unmatched, hk,
                   appVars, thr,
                   engineVars, audioVars, n_apply, ioVars>>

\* update_hotkey_display: self.set_state(self._state), the argument read
ApplyTrayRead ==
    /\ st.pc = "tray_read"
    /\ st' = [st EXCEPT !.pc = "tray_write", !.tmp = tray_state]
    /\ UNCHANGED <<hotkeyVars, appVars, thr, engineVars, audioVars, n_apply, ioVars>>

\* ... and set_state's assignment; then the model_size setter is called
ApplyTrayWrite ==
    /\ st.pc = "tray_write"
    /\ tray_state' = st.tmp
    /\ st' = [st EXCEPT !.pc = "model_size", !.tmp = ""]
    /\ UNCHANGED <<hotkeyVars, processing, cur, n_tasks, notes, sink, thr, engineVars,
                   audioVars, n_apply, ioVars>>

\* "if self._recorder.is_recording:"
ApplyIsRecording ==
    /\ st.pc = "is_recording"
    /\ st' = [st EXCEPT !.pc = IF IsRecording(recs[cur]) THEN "stop" ELSE "replace"]
    /\ UNCHANGED <<hotkeyVars, appVars, thr, engineVars, audioVars, n_apply, ioVars>>

\* self._recorder.stop_recording()
ApplyStop(how) ==
    /\ st.pc = "stop"
    /\ StopRecording(cur, how)
    /\ st' = [st EXCEPT !.pc = "replace"]
    /\ UNCHANGED <<hotkeyVars, appVars, thr, engineVars, n_apply, ioVars>>

\* self._recorder = AudioRecorder(device=...)
ApplyReplace ==
    /\ st.pc = "replace"
    /\ cur' = cur + 1
    /\ st' = StIdle
    /\ UNCHANGED <<hotkeyVars, processing, n_tasks, tray_state, notes, sink, thr,
                   engineVars, audioVars, n_apply, ioVars>>

(* ----------------------- clipboard (clipboard.py) ---------------------- *)

\* what the system clipboard holds: a text (the empty clipboard is the
\* empty text) or something that is not text
Text(x) == [kind |-> "text", v |-> x]
Image == [kind |-> "image", v |-> ""]

\* _clipboard_has_text_only(), on win32
HasTextOnly == clipboard.kind = "text"

\* the thread inside paste_text: where it is, its text, old_clipboard and
\* can_restore, and how many calls were made; a _restore thread: asleep or
\* over, and the old_clipboard of its closure
NoPaste == [pc |-> "none", text |-> "", old |-> "", can |-> FALSE, n |-> 0]
NoRestore == [pc |-> "none", old |-> ""]
Pastes == 1..MaxPastes
\* how a call into pyperclip or pyautogui ends
CallOutcomes == {"ok", "raise"}

pasteRest == <<hotkeyVars, appVars, thr, engineVars, audioVars, st, n_apply,
               config_file, config>>

\* paste_text(text): "if not text: return"
PasteCall(text) ==
    /\ pst.pc = "none"
    /\ pst.n < MaxPastes
    /\ pst' = IF text = "" THEN [NoPaste EXCEPT !.n = pst.n + 1]
              ELSE [NoPaste EXCEPT !.pc = "check", !.text = text, !.n = pst.n + 1]
    /\ UNCHANGED <<clipboard, window, rst, pasteRest>>

\* "if restore_clipboard: if _clipboard_has_text_only():"
PasteCheck ==
    /\ pst.pc = "check"
    /\ pst' = [pst EXCEPT !.pc = IF HasTextOnly THEN "read" ELSE "copy"]
    /\ UNCHANGED <<clipboard, window, rst, pasteRest>>

\* "old_clipboard = pyperclip.paste(); can_restore = True", or it raises
PasteRead(how) ==
    /\ pst.pc = "read"
    /\ pst' = IF how = "ok"
              THEN [pst EXCEPT !.pc = "copy", !.old = clipboard.v, !.can = TRUE]
              ELSE [pst EXCEPT !.pc = "copy"]
    /\ UNCHANGED <<clipboard, window, rst, pasteRest>>

\* pyperclip.copy(text); an exception leaves paste_text
PasteCopy(how) ==
    /\ pst.pc = "copy"
    /\ IF how = "ok"
       THEN clipboard' = Text(pst.text) /\ pst' = [pst EXCEPT !.pc = "ctrl_v"]
       ELSE clipboard' = clipboard /\ pst' = [NoPaste EXCEPT !.n = pst.n]
    /\ UNCHANGED <<window, rst, pasteRest>>

\* time.sleep(0.05); pyautogui.hotkey("ctrl", "v"): the active window
\* receives what the clipboard holds; "if can_restore:" the _restore thread
\* is started.  An exception of pyautogui returns before that.
PasteCtrlV(how) ==
    /\ pst.pc = "ctrl_v"
    /\ pst' = [NoPaste EXCEPT !.n = pst.n]
    /\ IF how = "ok"
       THEN /\ window' = Append(window, clipboard)
            /\ rst' = IF pst.can
                      THEN [rst EXCEPT ![pst.n] = [pc |-> "sleep", old |-> pst.old]]
                      ELSE rst
       ELSE UNCHANGED <<window, rst>>
    /\ UNCHANGED <<clipboard, pasteRest>>

\* _restore: time.sleep(0.1) is over;
\* pyperclip.copy(old_clipboard if old_clipboard else ""), "except: pass"
Restore(i, how) ==
    /\ rst[i].pc = "sleep"
    /\ rst' = [rst EXCEPT ![i].pc = "done"]
    /\ clipboard' = IF how = "ok" THEN Text(rst[i].old) ELSE clipboard
    /\ UNCHANGED <<window, pst, pasteRest>>

(* ------------------------- config (config.py) -------------------------- *)

\* the JSON values of a config file, and Missing for a key the dict lacks
None == [t |-> "none", s |-> "", n |-> 0, b |-> FALSE]
Missing == [t |-> "missing", s |-> "", n |-> 0, b |-> FALSE]
Str(x) == [t |-> "str", s |-> x, n |-> 0, b |-> FALSE]
Num(k) == [t |-> "int", s |-> "", n |-> k, b |-> FALSE]
Bool(x) == [t |-> "bool", s |-> "", n |-> 0, b |-> x]
\* a JSON array: a Python list, which cannot be hashed
List == [t |-> "list", s |-> "", n |-> 0, b |-> FALSE]

ConfigKeys == {"hotkey", "model", "audio_device", "sound_feedback"}

DEFAULT_CONFIG ==
    [hotkey |-> Str(DEFAULT_HOTKEY), model |-> Str(DEFAULT_MODEL),
     audio_device |-> None, sound_feedback |-> Bool(TRUE)]
NoConfig == [k \in ConfigKeys |-> Missing]

\* what a call of load_config ends with: a dict returned, or an exception
Returns(c) == [raised |-> "", value |-> c]
Raises(e) == [raised |-> e, value |-> NoConfig]
NotCalled == [raised |-> "not called", value |-> NoConfig]

\* saved.get(key): None for a key the dict lacks
Get(saved, key) == IF saved[key] = Missing THEN None ELSE saved[key]
\* "x in KEY_MAP" (a dict: x is hashed) and "x in AVAILABLE_MODELS" (a list)
Unhashable(v) == v.t = "list"
InKeyMap(v) == v.t = "str" /\ v.s \in KEY_MAP
InModels(v) == v.t = "str" /\ v.s \in AVAILABLE_MODELS
\* isinstance(x, int), which holds of True and False, and isinstance(x, bool)
IsInt(v) == v.t \in {"int", "bool"}
IsBool(v) == v.t = "bool"

\* saved[key]: KeyError for a key the dict lacks
Subscript(saved, key) ==
    IF saved[key] = Missing THEN Raises("KeyError") ELSE Returns(saved[key])

\* load_config, lines 42-52: the four entries in the order of the code
WithHotkey(saved) ==
    IF InKeyMap(Get(saved, "hotkey"))
    THEN [DEFAULT_CONFIG EXCEPT !.hotkey = saved.hotkey] ELSE DEFAULT_CONFIG
WithModel(saved, c) ==
    IF InModels(Get(saved, "model")) THEN [c EXCEPT !.model = saved.model] ELSE c
WithSound(saved, c) ==
    IF IsBool(Get(saved, "sound_feedback"))
    THEN [c EXCEPT !.sound_feedback = saved.sound_feedback] ELSE c

FromDict(saved) ==
    IF Unhashable(Get(saved, "hotkey")) THEN Raises("TypeError")
    ELSE LET c == WithModel(saved, WithHotkey(saved))
             device == Subscript(saved, "audio_device") IN
         IF Get(saved, "audio_device") = None \/ IsInt(Get(saved, "audio_device"))
         THEN IF device.raised # "" THEN device
              ELSE Returns(WithSound(saved, [c EXCEPT !.audio_device = device.value]))
         ELSE Returns(WithSound(saved, c))

\* load_config: the file is absent; open() raises IOError; the bytes are
\* not UTF-8 (UnicodeDecodeError, which the except clause does not name);
\* json.load raises JSONDecodeError; the JSON value is not an object; or it
\* is an object
load_config(file) ==
    CASE file.kind = "absent" -> Returns(DEFAULT_CONFIG)
      [] file.kind = "unreadable" -> Returns(DEFAULT_CONFIG)
      [] file.kind = "not_utf8" -> Raises("UnicodeDecodeError")
      [] file.kind = "invalid_json" -> Returns(DEFAULT_CONFIG)
      [] file.kind = "not_dict" -> Returns(DEFAULT_CONFIG)
      [] file.kind = "dict" -> FromDict(file.saved)

File(kind, saved) == [kind |-> kind, saved |-> saved]
NoFile == File("absent", NoConfig)

\* SypherSTT.__init__ and SettingsWindow call load_config
LoadConfig ==
    /\ config = NotCalled
    /\ config' = load_config(config_file)
    /\ UNCHANGED <<hotkeyVars, appVars, thr, engineVars, audioVars, st, n_apply,
                   config_file, clipboard, window, pst, rst>>

(* ------------------------- the application ----------------------------- *)

\* the state after SypherSTT.__init__ with the default configuration; d:
\* which models have a model.bin under models/
Constructed(d) ==
    /\ active = FALSE
    /\ is_held = FALSE
    /\ hotkey = DEFAULT_HOTKEY
    /\ down = {}
    /\ n_start = 0
    /\ stray_up = FALSE
    /\ unmatched = FALSE
    /\ hk = HkIdle
    /\ processing = FALSE
    /\ cur = 1
    /\ n_tasks = 0
    /\ tray_state = "idle"
    /\ notes = [x \in Titles |-> 0]
    /\ sink = <<>>
    /\ thr = [t \in Threads |-> NoThread]
    /\ model_size = DEFAULT_MODEL
    /\ model = NoModel
    /\ load_lock = -1
    /\ n_loads = 0
    /\ disk = d
    /\ st = StIdle
    /\ n_apply = 0

NoAudio ==
    /\ recs = [i \in Recorders |-> NewRecorder]
    /\ streams = [s \in StreamIds |-> NoStream]
    /\ n_streams = 0

\* no config file, an empty clipboard, and no paste made
NoFiles ==
    /\ config_file = NoFile
    /\ config = Returns(DEFAULT_CONFIG)
    /\ clipboard = Text("")
    /\ window = <<>>
    /\ pst = NoPaste
    /\ rst = [i \in Pastes |-> NoRestore]

DiskChoices == {{DEFAULT_MODEL}}

Init == \E d \in DiskChoices : Constructed(d) /\ NoAudio /\ NoFiles

AppThreads == {Preload} \cup Workers

\* a step of a thread inside the Transcriber
EngineStep(t) ==
    /\ \/ TranscribeEnter(t)
       \/ EnsureCheck(t)
       \/ EnsureLock(t)
       \/ \E how \in LoadOutcomes : EnsureLoad(t, how)
       \/ \E res \in InferResults : Infer(t, res)
    /\ UNCHANGED <<hotkeyVars, processing, cur, n_tasks, tray_state, audioVars, st, n_apply, ioVars>>

\* a step of the model_size setter
SetterStep ==
    /\ SetModelSize \/ SetModelNone
    /\ UNCHANGED <<hotkeyVars, appVars, audioVars, thr, n_apply, ioVars>>

\* the device delivers a block of the configured size
DeliverBlock(s) ==
    /\ \E f \in FrameSizes : AudioCallback(s, f)
    /\ UNCHANGED <<hotkeyVars, appVars, thr, engineVars, st, n_apply, ioVars>>

Next ==
    \/ Run
    \/ \E k \in KeyChoices : KeyDownEvt(k)
    \/ \E k \in KeyChoices : KeyUpEvt(k)
    \/ \E how \in StartOutcomes : PressStart(how)
    \/ PressFail
    \/ \E how \in AppStopOutcomes : ReleaseStop(how)
    \/ \E t \in AppThreads : EngineStep(t)
    \/ \E w \in Workers : Clear(w)
    \/ \E w \in Workers : ShowIdle(w)
    \/ \E c \in ConfigChoices : ApplySettings(c)
    \/ ApplyResetHeld
    \/ ApplyTrayRead
    \/ ApplyTrayWrite
    \/ SetterStep
    \/ ApplyIsRecording
    \/ \E how \in AppStopOutcomes : ApplyStop(how)
    \/ ApplyReplace
    \/ \E s \in StreamIds : DeliverBlock(s)

Spec == Init /\ [][Next]_vars

(* ------------- the application, with its threads scheduled ------------- *)

\* every thread that can take a step takes one at some time; a key that is
\* down is released at some time.  Nothing obliges the user to press a key
\* or to save settings.
ThreadSteps ==
    \/ \E how \in StartOutcomes : PressStart(how)
    \/ PressFail
    \/ \E how \in AppStopOutcomes : ReleaseStop(how)
    \/ \E t \in AppThreads : EngineStep(t)
    \/ \E w \in Workers : Clear(w)
    \/ \E w \in Workers : ShowIdle(w)
    \/ ApplyResetHeld
    \/ ApplyTrayRead
    \/ ApplyTrayWrite
    \/ SetterStep
    \/ ApplyIsRecording
    \/ \E how \in AppStopOutcomes : ApplyStop(how)
    \/ ApplyReplace

LiveSpec ==
    /\ Spec
    /\ WF_vars(ThreadSteps)
    /\ \A k \in KeyChoices : SF_vars(KeyUpEvt(k))

(* ------------------ the Transcriber under a harness -------------------- *)

\* the Transcriber alone: NCallers threads each call ensure_model or transcribe once, and the
\* model_size setter is called up to MaxSets times from another thread
Block(s) == [frames |-> BLOCK_SIZE, stream |-> s]
\* an array of n samples
Clip(n) == <<[frames |-> n, stream |-> 1]>>
\* no audio, one sample less than the threshold of transcribe, the
\* threshold, and two blocks
HarnessAudio == {<<>>, Clip(MIN_SAMPLES - 1), Clip(MIN_SAMPLES), <<Block(1), Block(1)>>}
EngineDisks == SUBSET ModelChoices

CallEnsure(t) ==
    /\ thr[t].pc = "none"
    /\ thr' = [thr EXCEPT ![t] = [NoThread EXCEPT !.pc = "ens_check", !.call = "ensure"]]
    /\ UNCHANGED <<hotkeyVars, appVars, engineVars, audioVars, st, n_apply, ioVars>>

CallTranscribe(t, audio) ==
    /\ thr[t].pc = "none"
    /\ thr' = [thr EXCEPT ![t] = Launched(audio)]
    /\ UNCHANGED <<hotkeyVars, appVars, engineVars, audioVars, st, n_apply, ioVars>>

CallSetter(value) ==
    /\ st.pc = "idle"
    /\ n_apply < MaxSets
    /\ n_apply' = n_apply + 1
    /\ st' = [StIdle EXCEPT !.pc = "model_size", !.model = value, !.then = "ret"]
    /\ UNCHANGED <<hotkeyVars, appVars, engineVars, audioVars, thr, ioVars>>

InitEngine == \E d \in EngineDisks : Constructed(d) /\ NoAudio /\ NoFiles

NextEngine ==
    \/ \E t \in Callers : CallEnsure(t)
    \/ \E t \in Callers, a \in HarnessAudio : CallTranscribe(t, a)
    \/ \E t \in Callers : EngineStep(t)
    \/ \E v \in SetterInputs : CallSetter(v)
    \/ SetterStep

SpecEngine == InitEngine /\ [][NextEngine]_vars

(* ----------------- the AudioRecorder under a harness ------------------- *)

\* the recorder of the application alone, with blocks of any of the sizes
\* AnyFrameSizes; it starts fresh, or NearCap blocks of BLOCK_SIZE frames
\* before the cap of a session on stream 1; the settings handler may
\* replace it, up to MaxApply times
CapBlocks == CapSamples \div BLOCK_SIZE

LongSession ==
    LET k == CapBlocks - NearCap IN
    [NewRecorder EXCEPT !.chunks = [i \in 1..k |-> Block(1)],
                        !.samples_recorded = k * BLOCK_SIZE,
                        !.stream = 1,
                        !.recording = TRUE]

InSession ==
    /\ recs = [i \in Recorders |-> IF i = 1 THEN LongSession ELSE NewRecorder]
    /\ streams = [s \in StreamIds |-> IF s = 1 THEN [rec |-> 1, st |-> "active"] ELSE NoStream]
    /\ n_streams = 1

RecStart(how) ==
    /\ StartRecording(cur, how)
    /\ UNCHANGED <<hotkeyVars, appVars, thr, engineVars, st, n_apply, ioVars>>

RecStop(how) ==
    /\ StopRecording(cur, how)
    /\ UNCHANGED <<hotkeyVars, appVars, thr, engineVars, st, n_apply, ioVars>>

RecBlock(s, f) ==
    /\ AudioCallback(s, f)
    /\ UNCHANGED <<hotkeyVars, appVars, thr, engineVars, st, n_apply, ioVars>>

\* the recorder's part of _apply_settings is entered from another thread:
\* "if self._recorder.is_recording: self._recorder.stop_recording()", then
\* the replacement
RecApply ==
    /\ st.pc = "idle"
    /\ n_apply < MaxApply
    /\ n_apply' = n_apply + 1
    /\ st' = [StIdle EXCEPT !.pc = "is_recording", !.then = "apply"]
    /\ UNCHANGED <<hotkeyVars, appVars, thr, engineVars, audioVars, ioVars>>

InitAudio == Constructed({DEFAULT_MODEL}) /\ (NoAudio \/ InSession) /\ NoFiles

NextAudio ==
    \/ \E how \in StartOutcomes : RecStart(how)
    \/ \E how \in StopOutcomes : RecStop(how)
    \/ \E s \in StreamIds, f \in AnyFrameSizes : RecBlock(s, f)
    \/ RecApply
    \/ ApplyIsRecording
    \/ \E how \in StopOutcomes : ApplyStop(how)
    \/ ApplyReplace

SpecAudio == InitAudio /\ [][NextAudio]_vars

(* -------------------- load_config under a harness ---------------------- *)

\* the values a config file gives an entry: none, valid ones, and invalid
\* ones of each JSON type
HotkeyValues == {Missing, Str("f9"), Str("f10"), Str("ctrl"), Num(9), List}
ModelValues == {Missing, Str("base.en"), Str("tiny.en"), Str("huge"), List}
DeviceValues == {Missing, None, Num(3), Str("mic"), Bool(TRUE)}
SoundValues == {Missing, Bool(TRUE), Bool(FALSE), Str("yes"), Num(1)}

SavedDicts ==
    {[hotkey |-> h, model |-> m, audio_device |-> d, sound_feedback |-> f] :
        h \in HotkeyValues, m \in ModelValues, d \in DeviceValues, f \in SoundValues}

ConfigFiles ==
    {File(k, NoConfig) : k \in {"absent", "unreadable", "not_utf8", "invalid_json", "not_dict"}}
        \cup {File("dict", saved) : saved \in SavedDicts}

InitConfig ==
    /\ Constructed({DEFAULT_MODEL})
    /\ NoAudio
    /\ config_file \in ConfigFiles
    /\ config = NotCalled
    /\ clipboard = Text("")
    /\ window = <<>>
    /\ pst = NoPaste
    /\ rst = [i \in Pastes |-> NoRestore]

NextConfig == LoadConfig

SpecConfig == InitConfig /\ [][NextConfig]_vars

(* --------------------- paste_text under a harness ---------------------- *)

\* paste_text is called up to MaxPastes times, one call after the other as
\* the workers do, with the _restore threads of earlier calls running;
\* the clipboard holds a text of the user, nothing, or an image
PasteInputs == Texts \cup {"good morning"}
Clipboards == {Text(""), Text("copied by the user"), Image}

InitPaste ==
    /\ Constructed({DEFAULT_MODEL})
    /\ NoAudio
    /\ config_file = NoFile
    /\ config = Returns(DEFAULT_CONFIG)
    /\ clipboard \in Clipboards
    /\ window = <<>>
    /\ pst = NoPaste
    /\ rst = [i \in Pastes |-> NoRestore]

NextPaste ==
    \/ \E text \in PasteInputs : PasteCall(text)
    \/ PasteCheck
    \/ \E how \in CallOutcomes : PasteRead(how)
    \/ \E how \in CallOutcomes : PasteCopy(how)
    \/ \E how \in CallOutcomes : PasteCtrlV(how)
    \/ \E i \in Pastes, how \in CallOutcomes : Restore(i, how)

SpecPaste == InitPaste /\ [][NextPaste]_vars

(* ====================== properties of the session ====================== *)

\* where a launched worker is while its transcription is in flight: from
\* the launch to the clearing of _processing
InFlightPcs == {"transcribe", "ens_check", "ens_lock", "ens_load", "infer", "clear"}
InFlight == {w \in Workers : thr[w].pc \in InFlightPcs}
\* the release handler between setting _processing and starting the thread
Launching == hk = "release_stop"
Done(w) == w <= n_tasks /\ thr[w].pc = "none"

\* the step in which _on_hotkey_press passes its test and shows Recording
PressAccepted == hk = "idle" /\ hk' = "press_start"
\* the session is Recording: shown, and the recorder of the app is capturing
SessionRecording == tray_state = "recording" /\ IsRecording(recs[cur])

\* C1: a press is accepted (Recording is shown and the recorder is about to
\* be started) only when the session is Idle: never while a transcription
\* is in flight, and never while a recording is already running.
C1_PressOnlyWhenIdle ==
    [][PressAccepted => (~processing /\ ~SessionRecording)]_vars

\* C2: in every reachable state at most one transcription is in flight
\* (being launched by the release handler, or running in a worker), and the
\* flag _processing is set exactly while there is one.
C2_OneInFlight ==
    /\ Cardinality(InFlight) + (IF Launching THEN 1 ELSE 0) <= 1
    /\ processing <=> (Launching \/ InFlight # {})

\* a second press was forwarded and its release arrived while the first
\* transcription was in flight: the release launched nothing
C2_Witness ==
    /\ n_apply = 0
    /\ n_start = 2
    /\ ~is_held
    /\ hk = "idle"
    /\ n_tasks = 1
    /\ processing
    /\ InFlight = {1}

\* C3: a transcription task that leaves the engine and the output sink, with
\* a text, with no text or by an exception, goes through its finally block:
\* it clears _processing, and when it ends the state shown is Idle and
\* _processing is set only for a transcription launched after it.
C3_TaskEndsIdle ==
    [][\A w \in Workers :
         /\ (thr[w].pc \in InFlightPcs /\ thr'[w].pc \notin InFlightPcs)
               => thr[w].pc = "clear"
         /\ (thr[w].pc = "clear" /\ thr'[w].pc # "clear")
               => (~processing' /\ thr'[w].pc = "show_idle")
         /\ (thr[w].pc # "none" /\ thr'[w].pc = "none")
               => /\ thr[w].pc = "show_idle"
                  /\ tray_state' = "idle"
                  /\ processing' => (Launching' \/ InFlight' # {})
      ]_vars

\* three tasks' worth of outcomes: a task has ended after an exception was
\* reported, nothing is in flight, and the state shown is Idle
C3_Witness ==
    /\ Done(1)
    /\ notes["Transcription Error"] > 0
    /\ InFlight = {}
    /\ ~Launching
    /\ ~processing
    /\ tray_state = "idle"
    /\ hk = "idle"

\* C4: with the threads scheduled and every held key released, a session
\* that is Recording or Transcribing (or has _processing set) is followed
\* by Idle with _processing clear.
C4_EventuallyIdle ==
    (tray_state # "idle" \/ processing) ~> (tray_state = "idle" /\ ~processing)

\* C5: paste_text receives a text exactly in the step in which a worker's
\* transcription returns a non-empty text, and receives that text, once; a
\* transcription that returns "" or raises delivers nothing, and one that
\* raises is reported by a "Transcription Error" notification.
Landed(w) == thr[w].pc \in (InFlightPcs \ {"clear"}) /\ thr'[w].pc = "clear"

C5_SinkGetsTheText ==
    [][/\ \A w \in Workers :
            Landed(w) =>
              LET out == thr'[w].out IN
                /\ (out \notin {"", "raise"}) => sink' = Append(sink, out)
                /\ (out \in {"", "raise"}) => sink' = sink
                /\ (out = "raise") => notes' = Notify("Transcription Error")
                /\ (out = "") => notes' = notes
       /\ (sink' # sink) => \E w \in Workers : Landed(w)
      ]_vars

\* a transcription delivered its text and ended with no error reported,
\* and another one ended with an error reported and nothing delivered
C5_Witness ==
    /\ sink = <<"hello world">>
    /\ Done(1)
    /\ Done(2)
    /\ notes["Transcription Error"] = 1

\* C6: no ensure_model load is running and no setter call is under way:
\* the loaded instance, if any, is one of the configured model.
C6_LoadedModelIsConfigured ==
    (st.pc = "idle" /\ \A t \in Threads : thr[t].pc # "ens_load")
        => (model = NoModel \/ model.name = model_size)

\* C7: the inference of a transcribe call runs on the instance its own
\* ensure_model found or made, whatever the setter did in between.
C7_InferenceOnEnsuredInstance ==
    [][\A t \in Threads :
         (thr[t].pc = "infer" /\ thr'[t].pc # "infer") => InferInstance = thr[t].ens
      ]_vars

\* C8: the harness callers all called ensure_model, no setter was called,
\* and all have returned: one load at most was attempted, and all callers
\* got the same outcome.
AllEnsured ==
    /\ n_apply = 0
    /\ \A t \in Callers : thr[t].pc = "ret" /\ thr[t].call = "ensure"

C8_OneLoadSameOutcome ==
    AllEnsured =>
        /\ n_loads <= 1
        /\ \A t1, t2 \in Callers : thr[t1].out = thr[t2].out /\ thr[t1].ens = thr[t2].ens

\* C9: in a capture session the sample count never decreases (a start
\* begins a new session at 0); a block is accumulated only while the count
\* is below SAMPLE_RATE * MAX_RECORDING_SECONDS; a session of blocks of
\* BLOCK_SIZE frames (the count is that of its blocks) never exceeds that
\* bound; and once the count has reached the bound the recorder is not
\* capturing.
FixedBlocks(r) ==
    /\ \A j \in DOMAIN r.chunks : r.chunks[j].frames = BLOCK_SIZE
    /\ r.samples_recorded = Len(r.chunks) * BLOCK_SIZE

KeyUpOf(k) == k \in down /\ k \notin down'

C10_StrayReleaseIsNoOp ==
    [][\A k \in KeyChoices :
         (KeyUpOf(k) /\ StrayRelease(k)) =>
             UNCHANGED <<tray_state, processing, n_tasks, is_held, hk, recs, streams,
                         n_streams, thr, notes, sink>>
      ]_vars

\* the listener has just handled a stray release, and no press was ever
\* forwarded
C10_Witness ==
    /\ stray_up
    /\ n_start = 0
    /\ tray_state = "idle"
    /\ ~processing

(* ==================== properties of the error paths ==================== *)

\* the press handler is in its except branch: start_recording has raised
StartFailed == hk = "press_fail"

\* C11: during a press whose start_recording raises, Recording is never the
\* state shown: while the handler is in its except branch the tray does not
\* show Recording.
C11_FailedStartShowsNoRecording ==
    StartFailed => tray_state # "recording"

\* the step in which the start_recording called by the press handler raises
StartRaises == hk = "press_start" /\ hk' = "press_fail"

\* C12: whenever start_recording raises, the recorder is not capturing
\* afterwards: is_recording is False.
C12_FailedStartIsInactive ==
    [][StartRaises => ~IsRecording(recs'[cur])]_vars

(* ===================== properties of the recorder ====================== *)

\* the open streams whose callback delivers into the buffer of recorder i
DeliveringTo(i) == {s \in StreamIds : streams[s].rec = i /\ streams[s].st = "active"}

\* C13: a recorder never has more than one open stream delivering blocks
\* into its buffer.
C13_OneStreamPerRecorder ==
    \A i \in Recorders : Cardinality(DeliveringTo(i)) <= 1

StopsStream(i) == recs[i].stream # 0 /\ recs'[i].stream = 0

\* C15: stop_recording always leaves the device stream closed: the stream
\* the recorder held when it was called is closed when it returns.
C15_StopClosesTheStream ==
    [][\A i \in Recorders :
         StopsStream(i) => streams'[recs[i].stream].st = "closed"
      ]_vars

\* the step in which a start_recording on recorder i succeeds: the recorder
\* holds a new stream, and that stream is started
StartSucceeds(i) ==
    /\ recs'[i].stream # recs[i].stream
    /\ recs'[i].stream # 0
    /\ streams'[recs'[i].stream].st = "active"

\* every block in the buffer of recorder i comes from the stream it holds
FromOwnStream(i) ==
    \A j \in DOMAIN recs[i].chunks : recs[i].chunks[j].stream = recs[i].stream

Transcribed(t) ==
    thr[t].pc = "ret" /\ thr[t].call = "transcribe" /\ thr[t].out # "raise"

\* C17: transcribe on fewer than 1600 samples returns "" at once: it takes
\* no step in ensure_model, loads nothing and invokes no model; on 1600
\* samples or more it goes on to ensure_model, and (no setter call running
\* beside it) its inference, made once, finds the model loaded.
C17_ShortInputSkipsModel ==
    /\ [](\A t \in Callers :
            /\ (thr[t].pc = "infer" /\ n_apply = 0)
                  => (model # NoModel /\ thr[t].ens = model)
            /\ Transcribed(t) =>
                  IF Size(thr[t].audio) < MIN_SAMPLES
                  THEN thr[t].out = "" /\ thr[t].ens = NoModel /\ thr[t].inst = NoModel
                  ELSE thr[t].ens # NoModel /\ thr[t].inst # NoModel)
    /\ [][\A t \in Callers :
            /\ (thr[t].pc = "transcribe" /\ thr'[t] # thr[t]) =>
                  IF Size(thr[t].audio) < MIN_SAMPLES
                  THEN thr'[t].pc = "ret" /\ UNCHANGED <<model, n_loads, load_lock>>
                  ELSE thr'[t].pc = "ens_check"
            /\ (thr[t].pc = "infer" /\ thr'[t] # thr[t]) => thr'[t].pc = "ret"
         ]_vars

\* a call with 1599 samples has returned "" while nothing was ever loaded,
\* and a call with 1600 samples has returned after its inference on the
\* one model loaded
C17_Witness ==
    \E t1, t2 \in Callers :
        /\ Transcribed(t1)
        /\ Size(thr[t1].audio) = MIN_SAMPLES - 1
        /\ thr[t1].out = ""
        /\ Transcribed(t2)
        /\ Size(thr[t2].audio) = MIN_SAMPLES
        /\ thr[t2].inst = model
        /\ model # NoModel
        /\ n_loads = 1

\* a step of the model_size setter at its tests of the name
SetterTests == st.pc = "model_size" /\ st' # st

\* C18: while an instance is loaded no load is made, and an ensure_model
\* that finds it returns it; the setter called with the configured name
\* changes nothing, called with another valid name it goes on to discard
\* the instance; and a loaded instance is replaced by nothing but the
\* setter's "self._model = None".
C18_LoadedInstanceReused ==
    [][/\ (model # NoModel) => n_loads' = n_loads
       /\ (model # NoModel /\ model' # model)
             => (model' = NoModel /\ st.pc = "model_none")
       /\ (SetterTests /\ st.model = model_size)
             => (st'.pc # "model_none" /\ model' = model /\ model_size' = model_size)
       /\ (SetterTests /\ st.model \in AVAILABLE_MODELS /\ st.model # model_size)
             => (st'.pc = "model_none" /\ model_size' = st.model)
       /\ \A t \in Callers :
             (thr[t].pc \in {"ens_check", "ens_lock"} /\ thr'[t] # thr[t] /\ model # NoModel)
                 => thr'[t].ens = model
      ]_vars

\* one load was made, the setter was called once, with the configured name,
\* and every caller has returned with the one instance, which is loaded
C18_Witness ==
    /\ n_apply = 1
    /\ st = StIdle
    /\ model_size = DEFAULT_MODEL
    /\ n_loads = 1
    /\ model # NoModel
    /\ \A t \in Callers : thr[t].pc = "ret" /\ thr[t].ens = model

\* C19: the setter called with a name outside AVAILABLE_MODELS raises
\* ValueError and leaves the configured name and the loaded instance as
\* they were; called with a name of AVAILABLE_MODELS it does not raise.
C19_InvalidNameRejected ==
    [][SetterTests =>
          IF st.model \in AVAILABLE_MODELS
          THEN st' # SetterRaised
          ELSE st' = SetterRaised /\ model_size' = model_size /\ model' = model
      ]_vars

\* the setter has raised on the invalid name while an instance of the
\* configured model was loaded: both are still there
C19_Witness ==
    /\ st = SetterRaised
    /\ model # NoModel
    /\ model.name = model_size
    /\ model_size \in AVAILABLE_MODELS

\* C20: no setter call is under way and the artifact of the configured
\* model is absent: a transcription task inside ensure_model gets no
\* instance from it.  Its unlocked test sends it on to the lock, and under
\* the lock it raises FileNotFoundError: the task reports a "Transcription
\* Error", delivers nothing to paste_text, leaves the engine unloaded and is
\* at its finally block, which shows Idle.
ArtifactAbsent == st.pc = "idle" /\ ModelMissing(model_size)
Ensuring(w, pc) == thr[w].pc = pc /\ thr'[w] # thr[w] /\ ArtifactAbsent

StateLock == "_state_lock"
RecorderLock == "_lock"

\* the locks held where the code touches the state the threads share:
\* _processing in the "with self._state_lock" blocks of the two handlers
\* and of the worker's finally block; TrayApp._state in set_state, which
\* the handlers, the worker and update_hotkey_display call outside every
\* with block; the buffer and the count in start_recording and
\* stop_recording under "with self._lock", and in _audio_callback, which
\* has no with block
LocksAt ==
    [processing |-> {StateLock},
     set_state |-> {},
     start_recording |-> {RecorderLock},
     stop_recording |-> {RecorderLock},
     audio_callback |-> {}]

\* the buffer or the count of recorder i changes
BufferTouched(i) ==
    \/ recs'[i].chunks # recs[i].chunks
    \/ recs'[i].samples_recorded # recs[i].samples_recorded

\* C21: every step that writes the in-flight flag, the state shown or a
\* recorder's buffer and count does so holding the lock that guards it.
C21_SharedStateUnderLock ==
    [][/\ (processing' # processing) => StateLock \in LocksAt.processing
       /\ (tray_state' # tray_state) => StateLock \in LocksAt.set_state
       /\ \A i \in Recorders :
            BufferTouched(i) =>
              /\ (hk = "press_start") => RecorderLock \in LocksAt.start_recording
              /\ (hk = "release_stop" \/ st.pc = "stop")
                    => RecorderLock \in LocksAt.stop_recording
              /\ (\E s \in StreamIds, f \in FrameSizes : AudioCallback(s, f))
                    => RecorderLock \in LocksAt.audio_callback
      ]_vars

\* C22: the step of the release handler that launches a worker is the one
\* that stopped the recorder: the recorder is stopped when the worker
\* exists, the worker's audio is the blocks the recorder held, in order,
\* and it stays that array until the transcription has returned, whatever
\* happens to the recorders meanwhile.
LaunchOf(w) == thr[w].pc = "none" /\ thr'[w].pc = "transcribe"
Transcribing(w) == thr[w].pc \in (InFlightPcs \ {"clear"})

C22_WorkerGetsWhatStopReturned ==
    [][\A w \in Workers :
         /\ LaunchOf(w)
               => /\ hk = "release_stop"
                  /\ thr'[w].audio = Concatenate(recs[cur].chunks)
                  /\ recs'[cur] = StopRecorder(recs[cur])
                  /\ ~IsRecording(recs'[cur])
         /\ (Transcribing(w) /\ thr'[w].pc # "clear")
               => thr'[w].audio = thr[w].audio
      ]_vars

\* a worker is at the inference with the two blocks of its session, while
\* the recorder they came from is stopped and empty
C22_Witness ==
    /\ thr[1].pc = "infer"
    /\ thr[1].audio = <<Block(1), Block(1)>>
    /\ recs[1].chunks = <<>>
    /\ ~IsRecording(recs[1])
    /\ streams[1].st = "closed"

\* C23: a handler that is under way on the listener thread can always take
\* its next step, wherever the workers are; the release handler returns in
\* the step that starts the worker, with the transcription not yet begun;
\* and an inference step is a worker's, taken while the listener thread
\* stays where it is.
HandlerReturns == hk = "release_stop" /\ hk' = "idle"
InferenceStep(t) == thr[t].pc = "infer" /\ thr'[t] # thr[t]

C23_HandlersNeverWait ==
    /\ [](/\ (hk = "press_start") => ENABLED PressStart("ok")
          /\ (hk = "press_fail") => ENABLED PressFail
          /\ (hk = "release_stop") => ENABLED ReleaseStop("ok"))
    /\ [][/\ HandlerReturns
             => \E w \in Workers : thr[w].pc = "none" /\ thr'[w].pc = "transcribe"
          /\ \A t \in Threads :
               InferenceStep(t) => (t \in Workers /\ hk' = hk)
         ]_vars

\* the release handler has returned, the inference of the transcription it
\* launched is pending, and the listener thread has since run both
\* handlers of a second press, which it rejected
C23_Witness ==
    /\ hk = "idle"
    /\ thr[1].pc = "infer"
    /\ processing
    /\ n_start = 2
    /\ ~is_held
    /\ down = {}

\* the steps that contain a "with self._state_lock" block: a forwarded
\* press (the test), a forwarded release (the test and the set) and the
\* worker's finally block (the clearing)
UnderStateLock ==
    \/ \E k \in KeyChoices : KeyDownEvt(k) /\ PressForwarded(k)
    \/ \E k \in KeyChoices : KeyUpEvt(k) /\ ReleaseForwarded(k)
    \/ \E w \in Workers : Clear(w)

\* a device stream is opened or closed, a recorder is started or stopped,
\* a thread moves inside the Transcriber, a text is pasted or a
\* notification is sent
BlockingStep ==
    \/ streams' # streams
    \/ recs' # recs
    \/ model' # model
    \/ n_loads' # n_loads
    \/ \E t \in Threads : thr[t].pc \in (InFlightPcs \ {"clear"}) /\ thr'[t] # thr[t]
    \/ sink' # sink
    \/ notes' # notes

OnePress == n_apply = 0 /\ n_start <= 1 /\ notes["Recording Error"] = 0

\* the state shown moves one step along Idle, Recording, Transcribing, Idle
ScenarioStep ==
    \/ tray_state = "idle" /\ tray_state' = "recording" /\ n_start = 0 /\ n_start' = 1
    \/ tray_state = "recording" /\ tray_state' = "transcribing" /\ n_tasks = 0
    \/ tray_state = "transcribing" /\ tray_state' = "idle" /\ thr[1].pc = "show_idle"

\* the worker of the scenario has the text T from the engine
Returned(T) ==
    /\ thr[1].pc = "clear"
    /\ thr[1].out = T

\* C25: in a run with one press from Idle that started a recording, the
\* state shown changes only along Idle, Recording, Transcribing, Idle, the
\* first step at the press; the worker whose engine returned the non-empty
\* text T for the two blocks (2048 samples) of the recording has given T,
\* and nothing else, to paste_text while Transcribing is shown; and when
\* it has ended, Idle is shown and paste_text has received T once.
C25_PressSpeakRelease ==
    /\ [][(OnePress' /\ hk # "press_fail" /\ tray_state' # tray_state)
             => ScenarioStep]_vars
    /\ [](OnePress =>
            /\ (thr[1].pc \in InFlightPcs) => tray_state = "transcribing" /\ processing
            /\ (thr[1].pc = "infer") => Size(thr[1].audio) >= MIN_SAMPLES
            /\ \A T \in Texts \ {""} :
                 Returned(T) => sink = <<T>>
            /\ (Done(1) /\ sink # <<>>)
                 => /\ tray_state = "idle"
                    /\ ~processing
                    /\ \E T \in Texts \ {""} : sink = <<T>>)

\* the scenario has run to its end: one press, two blocks, the text
\* pasted, no error reported, Idle shown
C25_Witness ==
    /\ OnePress
    /\ Done(1)
    /\ down = {}
    /\ sink = <<"hello world">>
    /\ tray_state = "idle"
    /\ ~processing
    /\ notes["Transcription Error"] = 0
    /\ streams[1].st = "closed"

\* the one recording of the run was released with fewer than MIN_SAMPLES
\* samples captured (the count outlives the stop)
ShortTap == OnePress /\ n_tasks = 1 /\ recs[1].samples_recorded < MIN_SAMPLES
EnginePcs == {"ens_check", "ens_lock", "ens_load", "infer"}

\* C26: the worker of a recording of fewer than 1600 samples returns from
\* transcribe at its size test with the empty text: it never enters
\* ensure_model or the inference, loads nothing, pastes nothing and
\* reports nothing; and when it has ended Idle is shown with _processing
\* clear.
C26_ShortTapIsSilent ==
    /\ [](ShortTap =>
            /\ thr[1].pc \notin EnginePcs
            /\ (thr[1].pc = "clear") => thr[1].out = ""
            /\ sink = <<>>
            /\ notes["Transcription Error"] = 0
            /\ Done(1) => (tray_state = "idle" /\ ~processing))
    /\ [][\A w \in Workers :
            (thr[w].pc = "transcribe" /\ Size(thr[w].audio) < MIN_SAMPLES /\ thr'[w] # thr[w])
               => /\ thr'[w].pc = "clear"
                  /\ thr'[w].out = ""
                  /\ UNCHANGED <<sink, notes, model, n_loads, load_lock>>
         ]_vars

\* one block (1024 samples) was captured and released; the worker has
\* ended, nothing was pasted or reported, Idle is shown, and no model was
\* loaded: the preload thread has not yet made its first test
C26_Witness ==
    /\ ShortTap
    /\ recs[1].samples_recorded = BLOCK_SIZE
    /\ Done(1)
    /\ sink = <<>>
    /\ \A x \in Titles : notes[x] = 0
    /\ tray_state = "idle"
    /\ ~processing
    /\ n_loads = 0
    /\ thr[Preload].pc = "ens_check"

(* ==================== properties of the state shown ==================== *)

\* the step in which _on_hotkey_release passes its test: _processing is
\* set and Transcribing is shown; the stop and the launch follow
ReleaseActedOn == hk = "idle" /\ hk' = "release_stop"

\* C27: a release is acted on only in the Recording state, that is after
\* a press that was accepted and whose start_recording succeeded.
C27_TranscribingOnlyFromRecording ==
    [][ReleaseActedOn => tray_state = "recording"]_vars

\* the steps in which HotkeyManager calls on_start and on_stop
OnStartCalled == n_start' = n_start + 1
OnStopCalled == \E k \in KeyChoices : KeyUpOf(k) /\ ReleaseForwarded(k)

\* C28: on_start is called only when every earlier on_start has had its
\* on_stop, and on_stop only when an on_start awaits one.
C28_StartStopAlternate ==
    [][/\ OnStartCalled => ~unmatched
       /\ OnStopCalled => unmatched
      ]_vars

(* ================= properties of the settings handler ================== *)

\* the device streams of recorder i that were opened and not closed
OpenStreams(i) ==
    {s \in StreamIds : streams[s].rec = i /\ streams[s].st \in {"active", "unstarted", "stopped"}}
\* "self._recorder = AudioRecorder(...)" is executed
Replaced == cur' = cur + 1

\* C29: when _apply_settings replaces a recorder that was auto-stopped at
\* the duration cap, the stream of the replaced recorder is not left open.
AutoStopped(r) == ~IsRecording(r) /\ r.samples_recorded >= CapSamples

C29_NoOrphanedStream ==
    [][(Replaced /\ AutoStopped(recs[cur]))
          => \A s \in OpenStreams(cur) : streams'[s].st = "closed"]_vars

\* no handler is under way on the listener thread, no worker exists, and
\* the settings were never saved
Quiescent ==
    /\ hk = "idle"
    /\ \A w \in Workers : thr[w].pc = "none"
    /\ n_apply = 0
\* a recording started by an accepted press awaits its release
AwaitsRelease ==
    /\ is_held
    /\ ~processing
    /\ IsRecording(recs[cur])
    /\ recs[cur].stream \in DeliveringTo(cur)

\* C30: with no handler and no worker under way, Recording is shown
\* exactly when a recording awaits its release, Transcribing exactly when
\* _processing is set, and Idle otherwise.
C30_ShownStateIsActual ==
    Quiescent =>
        /\ (tray_state = "recording") <=> AwaitsRelease
        /\ (tray_state = "transcribing") <=> processing

(* ===================== properties of the config file =================== *)

\* a dict with exactly the four keys, each entry of its whitelist or type
ValidConfig(c) ==
    /\ DOMAIN c = ConfigKeys
    /\ c.hotkey.t = "str" /\ c.hotkey.s \in KEY_MAP
    /\ c.model.t = "str" /\ c.model.s \in AVAILABLE_MODELS
    /\ c.audio_device = None \/ IsInt(c.audio_device)
    /\ IsBool(c.sound_feedback)

\* the entry of the file where it is valid, the default where it is
\* missing or invalid
Expected(saved, key) ==
    LET v == saved[key]
        ok == CASE key = "hotkey" -> v.t = "str" /\ v.s \in KEY_MAP
                [] key = "model" -> v.t = "str" /\ v.s \in AVAILABLE_MODELS
                [] key = "audio_device" -> v = None \/ v.t \in {"int", "bool"}
                [] key = "sound_feedback" -> v.t = "bool"
    IN IF ok THEN v ELSE DEFAULT_CONFIG[key]

\* C31: when the config file is absent, unreadable, not JSON or not a JSON
\* object, load_config returns the defaults; when it is a JSON object with
\* any of the four keys and any values, load_config returns, without
\* raising, a valid dict in which every entry is the file's where that is
\* valid and the default otherwise.
C31_LoadConfigAlwaysValid ==
    (config # NotCalled) =>
        /\ (config_file.kind \in {"absent", "unreadable", "invalid_json", "not_dict"})
              => config = Returns(DEFAULT_CONFIG)
        /\ (config_file.kind = "dict")
              => /\ config.raised = ""
                 /\ ValidConfig(config.value)
                 /\ \A key \in ConfigKeys :
                      config.value[key] = Expected(config_file.saved, key)

\* ---------------------------------------------------------------------
\* properties of the paste
\* ---------------------------------------------------------------------

\* the step in which pyautogui.hotkey("ctrl", "v") returns: the active
\* window receives what the clipboard holds at that moment
CtrlVSent == pst.pc = "ctrl_v" /\ Len(window') = Len(window) + 1

\* C32: what paste_text(T) pastes into the active window is T: no restore
\* thread of an earlier paste puts other content on the clipboard between
\* the copy of T and the simulated Ctrl+V.
C32_PastedTextIsT ==
    [][CtrlVSent => window'[Len(window')] = Text(pst.text)]_vars

====
